---- MODULE Spec2Model ----
(***************************************************************************)
(* chunked-promise: the schedulers q (one task at a time) and chunk (n at  *)
(* a time) with their options onProgress, signal, timeout and rateLimit.   *)
(*                                                                         *)
(* One step of the model is one synchronous segment of the JavaScript      *)
(* code: everything an async function does between two suspension points   *)
(* (await of a rate-limit sleep, of execTask, of Promise.all).  Tasks are  *)
(* numbered 1..total in input order; task bodies are opaque and settle at  *)
(* any moment after their dispatch, in any order, with any outcome.        *)
(* Timers (setTimeout) fire at or after their deadline, never before.      *)
(***************************************************************************)
EXTENDS Integers, Sequences, FiniteSets, TLC

\* ---------------------------------------------------------------- bounds
MaxTasks == 3       \* longest task list
MaxN     == 3       \* largest batch size n of chunk
MaxRate  == 2       \* largest rateLimit option
TimeoutMs == 505    \* the value of the timeout option when it is set
Tick     == 505     \* the clock advances by Tick, or to the next deadline
Horizon  == 2020    \* the clock stops Horizon ms after the call
Epoch    == 1000    \* Date.now() at the call

\* ------------------------------------------------------ program constants
Window == 1000      \* getRateLimitDelay: the trailing window, in ms
Margin == 10        \* getRateLimitDelay: the safety margin, in ms

Min(a, b) == IF a < b THEN a ELSE b
Max(a, b) == IF a > b THEN a ELSE b

VARIABLES
  mode,         \* "q" or "chunk": the entry point called
  total,        \* fns.length
  n,            \* chunk's batch size
  onProgress,   \* opts.onProgress is given
  signal,       \* opts.signal: "absent", "clear" or "aborted"
  timeout,      \* opts.timeout (0 = none)
  rateLimit,    \* opts.rateLimit (0 = unlimited)
  now,          \* Date.now()
  pc,           \* the run: "start", "run", "done" (returned), "aborted" (AbortError)
  index,        \* tasks consumed by the loop (chunk's index; q's iterator position)
  results,      \* the results array
  timestamps,   \* the timestamps array
  st,           \* per task: "idle", "sleep", "exec", "returned", "threw"
  wake,         \* per task: deadline of its rate-limit sleep
  body,         \* per task: the work fn() started: "idle", "running", "settled"
  bodyRes,      \* per task: what the promise of fn() settled with
  timer,        \* per task: withTimeout's timer: NoTimer, Fired or its deadline
  batchResults, \* per task: the TaskResult its execTask resolved with
  atCall,       \* history: the signal as it was when the run was called
  dispatched,   \* history: the calls fn(), in order, with their time
  events,       \* history: the snapshots passed to onProgress, in order
  other,        \* a second run called with the same arguments, as a State
  rec           \* a run of the recursive chunk of q-chunk.js on the same tasks

cfg  == <<mode, total, n, onProgress, timeout, rateLimit>>
run  == <<pc, index, results, timestamps, st, wake, body, bodyRes, timer,
          batchResults, dispatched, events>>
aux  == <<other, rec>>
vars == <<cfg, signal, now, atCall, run, aux>>

Tasks == 1..total

NoTimer == -1
Fired   == -2

\* ------------------------------------------------- promises and results
\* What a promise settles with: a value, or an error.
NoError == [name |-> "none", task |-> 0]
Pending == [ok |-> FALSE, value |-> 0, error |-> NoError]
Resolve(v) == [ok |-> TRUE, value |-> v, error |-> NoError]
Reject(e) == [ok |-> FALSE, value |-> 0, error |-> e]

\* the errors task i can reject with: an Error or an AbortError of its own
TaskError(i) == {[name |-> "Error", task |-> i], [name |-> "AbortError", task |-> i]}
\* new TimeoutError()
TimeoutError == [name |-> "TimeoutError", task |-> 0]
\* Everything the promise of task i can settle with; its value is i.  A task
\* that throws before returning a promise is caught by execTask like a
\* rejection, and is covered by the rejection that comes at once.
Outcomes(i) == {Resolve(i)} \cup {Reject(e) : e \in TaskError(i)}

\* TaskResult: {status: 'fulfilled', value} or {status: 'rejected', reason}
NoResult == [status |-> "none", value |-> 0, reason |-> NoError]
Fulfilled(v) == [status |-> "fulfilled", value |-> v, reason |-> NoError]
Rejected(e) == [status |-> "rejected", value |-> 0, reason |-> e]

\* execTask's try/catch: whatever withTimeout settles with becomes a result
Settled(o) == IF o.ok THEN Fulfilled(o.value) ELSE Rejected(o.error)

\* mutant of checkAbort: the signal is never looked at
checkAbortIgnored == FALSE

\* checkAbort(signal) throws
checkAbort == signal = "aborted"

\* ------------------------------------------------------------ rate limiter
\* timestamps.find(t => t > windowStart) || timestamps[0]
OldestInWindow(ts, windowStart) ==
  LET recent == SelectSeq(ts, LAMBDA t : t > windowStart)
      found  == IF Len(recent) > 0 THEN recent[1] ELSE 0
  IN  IF found # 0 THEN found ELSE ts[1]

\* mutant of getRateLimitDelay: the window length is left out of the delay
getRateLimitDelayShort(ts, limit, t) ==
  IF limit = 0 \/ Len(ts) < limit THEN 0
  ELSE LET windowStart == t - Window
           recentCount == Len(SelectSeq(ts, LAMBDA x : x > windowStart))
       IN  IF recentCount < limit THEN 0
           ELSE Max(0, OldestInWindow(ts, windowStart) - t + Margin)

getRateLimitDelay(ts, limit, t) ==
  IF limit = 0 \/ Len(ts) < limit THEN 0
  ELSE LET windowStart == t - Window
           recentCount == Len(SelectSeq(ts, LAMBDA x : x > windowStart))
       IN  IF recentCount < limit THEN 0
           ELSE Max(0, OldestInWindow(ts, windowStart) + Window - t + Margin)

\* while (timestamps.length > keep) timestamps.shift()
Shift(ts, keep) ==
  IF Len(ts) > keep THEN SubSeq(ts, Len(ts) - keep + 1, Len(ts)) ELSE ts

\* how many timestamps each entry point keeps
Keep == IF mode = "q" THEN rateLimit ELSE rateLimit * 2

\* timestamps.push(Date.now()) and the pruning loop
Record(s) == [s EXCEPT !.timestamps = Shift(Append(@, now), Keep)]

\* ------------------------------------------------- synchronous segments
\* The run's mutable state, threaded through one synchronous segment.
State == [pc |-> pc, index |-> index, results |-> results,
          timestamps |-> timestamps, st |-> st, wake |-> wake, body |-> body,
          bodyRes |-> bodyRes, timer |-> timer, batchResults |-> batchResults,
          dispatched |-> dispatched, events |-> events]

Becomes(s) ==
  /\ pc' = s.pc
  /\ index' = s.index
  /\ results' = s.results
  /\ timestamps' = s.timestamps
  /\ st' = s.st
  /\ wake' = s.wake
  /\ body' = s.body
  /\ bodyRes' = s.bodyRes
  /\ timer' = s.timer
  /\ batchResults' = s.batchResults
  /\ dispatched' = s.dispatched
  /\ events' = s.events

\* checkAbort throws inside the code of task i: q fails at once; in chunk the
\* member's promise rejects, which rejects Promise.all and so the run.
Throw(s, i) ==
  [s EXCEPT !.st[i] = "threw",
            !.pc = IF @ = "run" THEN "aborted" ELSE @]

\* mutant of withTimeout: the timer is never armed
withTimeoutUnarmed(s, i) ==
  [s EXCEPT !.st[i] = "exec",
            !.body[i] = "running",
            !.dispatched = Append(@, [task |-> i, at |-> now,
                                      aborted |-> signal = "aborted"])]

\* withTimeout(fn, timeout): fn() is called; with a timeout a timer is armed.
withTimeout(s, i) ==
  [s EXCEPT !.st[i] = "exec",
            !.body[i] = "running",
            !.timer[i] = IF timeout > 0 THEN now + timeout ELSE NoTimer,
            !.dispatched = Append(@, [task |-> i, at |-> now,
                                      aborted |-> signal = "aborted"])]

\* mutant of Dispatch: the check before execTask is missing
DispatchUnchecked(s, i) == withTimeout(s, i)

\* checkAbort(signal); await execTask(fn, timeout)
Dispatch(s, i) == IF checkAbort THEN Throw(s, i) ELSE withTimeout(s, i)

\* The rate-limit block and what follows it, up to the first suspension.
BeginTask(s, i) ==
  IF rateLimit > 0
    THEN LET delay == getRateLimitDelay(s.timestamps, rateLimit, now)
         IN  IF delay > 0
               THEN [s EXCEPT !.st[i] = "sleep", !.wake[i] = now + delay]
               ELSE Dispatch(Record(s), i)
    ELSE Dispatch(s, i)

\* onProgress({done, total, results}), when the option is given
Progress(s, done, snapshot, kind) ==
  IF onProgress
    THEN [s EXCEPT !.events = Append(@, [done |-> done, total |-> total,
                                         results |-> snapshot, kind |-> kind,
                                         pc |-> s.pc])]
    ELSE s

\* mutant of QLoop: the remaining tasks are all started without awaiting
QLoopEager(s) ==
  IF s.index >= total THEN [s EXCEPT !.pc = "done"]
  ELSE IF checkAbort THEN [s EXCEPT !.pc = "aborted"]
  ELSE LET s1 == BeginTask(s, s.index + 1)
       IN  IF s.index + 2 <= total /\ s1.st[s.index + 2] = "idle"
             THEN BeginTask(s1, s.index + 2)
             ELSE s1

\* q: the head of the for loop
QLoop(s) ==
  IF s.index >= total THEN [s EXCEPT !.pc = "done"]
  ELSE IF checkAbort THEN [s EXCEPT !.pc = "aborted"]
  ELSE BeginTask(s, s.index + 1)

\* mutant of QResume: an aborted signal is noticed before the result is kept
QResumeDrops(s, i, r) ==
  LET s1 == [s EXCEPT !.st[i] = "returned", !.batchResults[i] = r,
                      !.results = Append(@, r), !.index = @ + 1]
  IN  IF checkAbort
        THEN [s EXCEPT !.st[i] = "returned", !.batchResults[i] = r,
                       !.pc = "aborted"]
        ELSE QLoop(Progress(s1, Len(s1.results), s1.results, "task"))

\* q: execTask resolved with r for task i
QResume(s, i, r) ==
  LET s1 == [s EXCEPT !.st[i] = "returned", !.batchResults[i] = r,
                      !.results = Append(@, r), !.index = @ + 1]
  IN  QLoop(Progress(s1, Len(s1.results), s1.results, "task"))

\* chunk: the members of the batch first..last, started in order by map
RECURSIVE Map(_, _, _)
Map(s, first, last) ==
  IF first > last THEN s ELSE Map(BeginTask(s, first), first + 1, last)

\* mutant of ChunkLoop: the slice taken is one task too long
ChunkLoopWide(s) ==
  IF s.index >= total THEN [s EXCEPT !.pc = "done"]
  ELSE IF checkAbort THEN [s EXCEPT !.pc = "aborted"]
  ELSE Map(s, s.index + 1, Min(s.index + n + 1, total))

\* chunk: the head of the while loop
ChunkLoop(s) ==
  IF s.index >= total THEN [s EXCEPT !.pc = "done"]
  ELSE IF checkAbort THEN [s EXCEPT !.pc = "aborted"]
  ELSE Map(s, s.index + 1, Min(s.index + n, total))

\* chunk: the done field of the event of the member at position i of the batch
MemberDone(len, i) == len + i

\* chunk: execTask resolved with r for task i, a member of the current batch
MemberResume(s, i, r) ==
  LET done == MemberDone(Len(s.results), i - s.index)
      s1 == Progress(s, Min(done, total), Append(s.results, r), "task")
  IN  [s1 EXCEPT !.st[i] = "returned", !.batchResults[i] = r]

\* mutant of Joined: no event is emitted at the batch boundary
JoinedSilent(s) ==
  LET last == Min(s.index + n, total)
      s1 == [s EXCEPT !.results = @ \o [k \in 1..(last - s.index)
                                          |-> s.batchResults[s.index + k]],
                      !.index = @ + n]
  IN  ChunkLoop(s1)

\* mutant of Joined: the batch's results are appended last member first
JoinedReversed(s) ==
  LET last == Min(s.index + n, total)
      s1 == [s EXCEPT !.results = @ \o [k \in 1..(last - s.index)
                                          |-> s.batchResults[last + 1 - k]],
                      !.index = @ + n]
  IN  ChunkLoop(Progress(s1, Len(s1.results), s1.results, "batch"))

\* chunk: Promise.all resolved for the batch index+1 .. index+n
Joined(s) ==
  LET last == Min(s.index + n, total)
      s1 == [s EXCEPT !.results = @ \o [k \in 1..(last - s.index)
                                          |-> s.batchResults[s.index + k]],
                      !.index = @ + n]
  IN  ChunkLoop(Progress(s1, Len(s1.results), s1.results, "batch"))

\* the code awaiting execTask for task i goes on with the result r
Resume(s, i, r) == IF mode = "q" THEN QResume(s, i, r) ELSE MemberResume(s, i, r)

\* mutant of execTask: an AbortError of the task is thrown on, not caught
execTaskRethrows(s, i, o) ==
  IF ~o.ok /\ o.error.name = "AbortError"
    THEN Throw(s, i)
    ELSE Resume(s, i, Settled(o))

\* execTask: withTimeout settled with o for task i; never throws
execTask(s, i, o) == Resume(s, i, Settled(o))

\* a run before its call
Fresh ==
  [pc |-> "start", index |-> 0, results |-> <<>>, timestamps |-> <<>>,
   st |-> [i \in 1..total |-> "idle"], wake |-> [i \in 1..total |-> 0],
   body |-> [i \in 1..total |-> "idle"],
   bodyRes |-> [i \in 1..total |-> Pending],
   timer |-> [i \in 1..total |-> NoTimer],
   batchResults |-> [i \in 1..total |-> NoResult],
   dispatched |-> <<>>, events |-> <<>>]

\* The recursive chunk before its call.  fns is the list the innermost call
\* was given (tasks by their number), frames holds, for every call that waits
\* for its recursive call, the values its Promise.all resolved with.
RecFresh ==
  [pc |-> "start", fns |-> [i \in 1..total |-> i], frames |-> <<>>,
   body |-> [i \in 1..total |-> "idle"], dispatched |-> <<>>, out |-> <<>>]

\* ---------------------------------------------------------------- actions
Init ==
  /\ mode \in {"q", "chunk"}
  /\ total \in 0..MaxTasks
  /\ n \in IF mode = "q" THEN {1} ELSE 1..MaxN
  /\ onProgress \in BOOLEAN
  /\ signal \in {"absent", "clear"}
  /\ timeout \in {0, TimeoutMs}
  /\ rateLimit \in 0..MaxRate
  /\ now = Epoch
  /\ pc = "start"
  /\ index = 0
  /\ results = <<>>
  /\ timestamps = <<>>
  /\ st = [i \in 1..total |-> "idle"]
  /\ wake = [i \in 1..total |-> 0]
  /\ body = [i \in 1..total |-> "idle"]
  /\ bodyRes = [i \in 1..total |-> Pending]
  /\ timer = [i \in 1..total |-> NoTimer]
  /\ batchResults = [i \in 1..total |-> NoResult]
  /\ atCall = "none"
  /\ dispatched = <<>>
  /\ events = <<>>
  /\ other = Fresh
  /\ rec = RecFresh

\* q(fns, opts) or chunk(fns, n, opts) is called
Call ==
  /\ pc = "start"
  /\ Becomes(IF mode = "q" THEN QLoop([State EXCEPT !.pc = "run"])
                           ELSE ChunkLoop([State EXCEPT !.pc = "run"]))
  /\ atCall' = signal
  /\ UNCHANGED <<cfg, signal, now, aux>>

\* controller.abort(): one way
Abort ==
  /\ signal = "clear"
  /\ signal' = "aborted"
  /\ UNCHANGED <<cfg, now, atCall, run, aux>>

\* the deadlines of the timers still to fire
Deadlines ==
  {wake[i] : i \in {j \in Tasks : st[j] = "sleep"}}
    \cup {timer[i] : i \in {j \in Tasks : timer[j] >= 0}}

\* Something of the run still waits: a sleep, an awaited task or a timer.
Waiting == \E i \in Tasks : st[i] \in {"sleep", "exec"} \/ timer[i] >= 0

\* Time passes: by Tick, or up to a deadline.  The code observes the clock
\* only through Date.now() of the rate limiter and through setTimeout, so
\* time is tracked while one of the two options is set and something waits.
Advance ==
  /\ rateLimit > 0 \/ timeout > 0
  /\ Waiting
  /\ \E d \in {Tick} \cup {t - now : t \in {u \in Deadlines : u > now}} :
       /\ now + d <= Epoch + Horizon
       /\ now' = now + d
  /\ UNCHANGED <<cfg, signal, atCall, run, aux>>

\* the rate-limit sleep of task i is over
Wake(i) ==
  /\ st[i] = "sleep"
  /\ now >= wake[i]
  /\ Becomes(Dispatch(Record(State), i))
  /\ UNCHANGED <<cfg, signal, now, atCall, aux>>

\* The promise of task i settles with o.  It wins the race of withTimeout
\* when execTask is still awaited; after a timeout nobody listens any more.
Settle(i, o) ==
  /\ body[i] = "running"
  /\ LET s == [State EXCEPT !.body[i] = "settled", !.bodyRes[i] = o]
     IN  Becomes(IF st[i] = "exec" THEN execTask(s, i, o) ELSE s)
  /\ UNCHANGED <<cfg, signal, now, atCall, aux>>

\* mutant of Timeout: the timer's rejection is taken even after the task settled
TimeoutClobbers(i) ==
  /\ timer[i] >= 0
  /\ now >= timer[i]
  /\ LET s == [State EXCEPT !.timer[i] = Fired]
     IN  Becomes(IF st[i] = "exec"
                   THEN execTask(s, i, Reject(TimeoutError))
                   ELSE [s EXCEPT !.batchResults[i] = Rejected(TimeoutError)])
  /\ UNCHANGED <<cfg, signal, now, atCall, aux>>

\* The timer of withTimeout fires for task i (it is never cleared).  It wins
\* the race when execTask is still awaited; the task itself goes on running.
Timeout(i) ==
  /\ timer[i] >= 0
  /\ now >= timer[i]
  /\ LET s == [State EXCEPT !.timer[i] = Fired]
     IN  Becomes(IF st[i] = "exec" THEN execTask(s, i, Reject(TimeoutError)) ELSE s)
  /\ UNCHANGED <<cfg, signal, now, atCall, aux>>

\* chunk: every member of the batch has returned
Join ==
  /\ mode = "chunk"
  /\ pc = "run"
  /\ index < total
  /\ \A i \in (index + 1)..Min(index + n, total) : st[i] = "returned"
  /\ Becomes(Joined(State))
  /\ UNCHANGED <<cfg, signal, now, atCall, aux>>

Next ==
  \/ Call
  \/ Abort
  \/ Advance
  \/ \E i \in Tasks : Wake(i)
  \/ \E i \in Tasks : \E o \in Outcomes(i) : Settle(i, o)
  \/ \E i \in Tasks : Timeout(i)
  \/ Join

Spec == Init /\ [][Next]_vars

\* ---------------------------------------------------- runs to their end
LiveTasks == 2      \* longest task list of the runs followed to their end

InitLive == Init /\ total <= LiveTasks /\ n <= LiveTasks

\* Time passes as in Advance, but a timer that is set always comes due: the
\* clock moves to a pending deadline also beyond the horizon.
AdvanceLive ==
  /\ rateLimit > 0 \/ timeout > 0
  /\ Waiting
  /\ \E t \in {u \in {now + Tick} : u <= Epoch + Horizon}
                \cup {u \in Deadlines : u > now} :
       now' = t
  /\ UNCHANGED <<cfg, signal, atCall, run, aux>>

NextLive ==
  \/ Call
  \/ Abort
  \/ AdvanceLive
  \/ \E i \in Tasks : Wake(i)
  \/ \E i \in Tasks : \E o \in Outcomes(i) : Settle(i, o)
  \/ \E i \in Tasks : Timeout(i)
  \/ Join

\* The event loop runs every callback that is due: the call is made, time
\* passes, due timers fire and continuations run.  A task's own promise is
\* assumed to settle only when no timeout is configured.
Fairness ==
  /\ WF_vars(Call)
  /\ WF_vars(AdvanceLive)
  /\ WF_vars(Join)
  /\ \A i \in 1..LiveTasks :
       /\ WF_vars(i \in Tasks /\ Wake(i))
       /\ WF_vars(i \in Tasks /\ Timeout(i))
       /\ WF_vars(i \in Tasks /\ timeout = 0 /\ \E o \in Outcomes(i) : Settle(i, o))

SpecLive == InitLive /\ [][NextLive]_vars /\ Fairness

\* ------------------------------------------------- two concurrent runs
\* Two runs called with the same arguments go on side by side: the first is
\* the run of the variables above, the second is `other`.  Standalone calls
\* each have the timestamps array they created; the calls made through one
\* pool read and write one array, kept here in the first run's variable.
PairTasks == 3      \* longest task list of each of the two runs

InitPair ==
  /\ Init
  /\ total \in 1..PairTasks
  /\ n <= PairTasks
  /\ rateLimit > 0
  /\ timeout = 0
  /\ signal = "absent"
  /\ ~onProgress

\* the pool's state seen by the second run: the one shared timestamps array
Shared(s) == [s EXCEPT !.timestamps = timestamps]

\* mutant of Own: the second standalone run uses the first run's array
OwnBorrowed(s) == [s EXCEPT !.timestamps = timestamps]

\* a standalone run's state: const timestamps = [] of its own call
Own(s) == s

\* The second run's state as its code sees it, and the write back.
Second(sh) == IF sh THEN Shared(other) ELSE Own(other)

SecondBecomes(sh, s) ==
  /\ other' = s
  /\ timestamps' = IF sh THEN s.timestamps ELSE timestamps
  /\ UNCHANGED <<pc, index, results, st, wake, body, bodyRes, timer,
                 batchResults, dispatched, events>>
  /\ UNCHANGED <<cfg, signal, now, atCall, rec>>

SecondCall(sh) ==
  /\ other.pc = "start"
  /\ SecondBecomes(sh, IF mode = "q"
                         THEN QLoop([Second(sh) EXCEPT !.pc = "run"])
                         ELSE ChunkLoop([Second(sh) EXCEPT !.pc = "run"]))

SecondWake(sh, i) ==
  /\ other.st[i] = "sleep"
  /\ now >= other.wake[i]
  /\ SecondBecomes(sh, Dispatch(Record(Second(sh)), i))

SecondSettle(sh, i, o) ==
  /\ other.body[i] = "running"
  /\ LET s == [Second(sh) EXCEPT !.body[i] = "settled", !.bodyRes[i] = o]
     IN  SecondBecomes(sh, IF other.st[i] = "exec" THEN execTask(s, i, o) ELSE s)

SecondJoin(sh) ==
  /\ mode = "chunk"
  /\ other.pc = "run"
  /\ other.index < total
  /\ \A i \in (other.index + 1)..Min(other.index + n, total) :
       other.st[i] = "returned"
  /\ SecondBecomes(sh, Joined(Second(sh)))

\* the sleeps of both runs
PairDeadlines ==
  {wake[i] : i \in {j \in Tasks : st[j] = "sleep"}}
    \cup {other.wake[i] : i \in {j \in Tasks : other.st[j] = "sleep"}}

\* Time passes while a task of either run sleeps or is awaited.
AdvancePair ==
  /\ \E i \in Tasks : \/ st[i] \in {"sleep", "exec"}
                       \/ other.st[i] \in {"sleep", "exec"}
  /\ \E t \in {now + Tick} \cup {u \in PairDeadlines : u > now} :
       /\ t <= Epoch + Horizon
       /\ now' = t
  /\ UNCHANGED <<cfg, signal, atCall, run, aux>>

\* The tasks of the two runs all succeed; the first run is called first.
NextPair(sh) ==
  \/ Call
  \/ pc # "start" /\ SecondCall(sh)
  \/ AdvancePair
  \/ \E i \in Tasks : Wake(i)
  \/ \E i \in Tasks : SecondWake(sh, i)
  \/ \E i \in Tasks : Settle(i, Resolve(i))
  \/ \E i \in Tasks : SecondSettle(sh, i, Resolve(i))
  \/ Join
  \/ SecondJoin(sh)

\* two standalone calls
NextAlone == NextPair(FALSE)
SpecPair == InitPair /\ [][NextAlone]_vars

\* two calls through one pool
NextPool == NextPair(TRUE)
SpecPool == InitPair /\ [][NextPool]_vars

\* ------------------------------------------ the recursive chunk (q-chunk.js)
\* fns.slice(from, to), with from counted from 0 as in the code
Slice(list, from, to) == SubSeq(list, from + 1, Min(to, Len(list)))

\* fns.slice(0, n).map(f => f()): the tasks of the batch are called in order
RECURSIVE RecMap(_, _)
RecMap(r, batch) ==
  IF batch = <<>> THEN r
  ELSE RecMap([r EXCEPT !.body[Head(batch)] = "running",
                        !.dispatched = Append(@, [task |-> Head(batch),
                                                  group |-> Len(r.frames) + 1])],
              Tail(batch))

\* chunk(fns, n) up to its first await: an empty list returns [] at once
RecChunk(r) ==
  IF Len(r.fns) = 0
    THEN [r EXCEPT !.out = <<>>,
                   !.pc = IF r.frames = <<>> THEN "done" ELSE "return"]
    ELSE RecMap([r EXCEPT !.pc = "run"], Slice(r.fns, 0, n))

\* Promise.all resolved with the values of the batch, in the batch's order;
\* the call goes on to chunk(fns.slice(n), n)
RecAll(r) ==
  LET batch == Slice(r.fns, 0, n)
  IN  RecChunk([r EXCEPT !.frames = Append(@, batch),
                         !.fns = Slice(@, n, Len(@))])

\* mutant of RecReturn: the values of the rest come before the batch's own
RecReturnSwapped(r) ==
  LET k == Len(r.frames)
  IN  [r EXCEPT !.out = @ \o r.frames[k],
                !.frames = SubSeq(@, 1, k - 1),
                !.pc = IF k = 1 THEN "done" ELSE "return"]

\* the recursive call returned: [...batch values, ...values of the rest]
RecReturn(r) ==
  LET k == Len(r.frames)
  IN  [r EXCEPT !.out = r.frames[k] \o @,
                !.frames = SubSeq(@, 1, k - 1),
                !.pc = IF k = 1 THEN "done" ELSE "return"]

RecBecomes(r) ==
  /\ rec' = r
  /\ UNCHANGED <<cfg, signal, now, atCall, run, other>>

\* chunk(fns, n) of q-chunk.js is called
RecCall ==
  /\ rec.pc = "start"
  /\ RecBecomes(RecChunk(rec))

\* the promise of task i resolves with its value, i
RecSettle(i) ==
  /\ rec.body[i] = "running"
  /\ RecBecomes([rec EXCEPT !.body[i] = "settled"])

\* every task of the innermost call's batch has resolved
RecJoin ==
  /\ rec.pc = "run"
  /\ \A k \in 1..Min(n, Len(rec.fns)) : rec.body[rec.fns[k]] = "settled"
  /\ RecBecomes(RecAll(rec))

\* a call that waited for its recursive call returns
RecUnwind ==
  /\ rec.pc = "return"
  /\ RecBecomes(RecReturn(rec))

\* Both chunks run on a list of tasks that all succeed; the chunk with
\* options is called without any.
InitRec ==
  /\ Init
  /\ mode = "chunk"
  /\ ~onProgress
  /\ signal = "absent"
  /\ timeout = 0
  /\ rateLimit = 0

NextRec ==
  \/ Call
  \/ \E i \in Tasks : Settle(i, Resolve(i))
  \/ Join
  \/ RecCall
  \/ \E i \in Tasks : RecSettle(i)
  \/ RecJoin
  \/ RecUnwind

SpecRec == InitRec /\ [][NextRec]_vars

\* ------------------------------------------------------------- properties
\* execTask resolved with TimeoutError for task i
TimedOut(i) == batchResults[i] = Rejected(TimeoutError)

\* the result of task i is what its own promise settled with, or a timeout
OwnResult(r, i) ==
  \/ body[i] = "settled" /\ r = Settled(bodyRes[i]) /\ bodyRes[i] \in Outcomes(i)
  \/ timeout > 0 /\ timer[i] = Fired /\ r = Rejected(TimeoutError)

\* two members of one batch settled against their input order
OutOfOrder ==
  \E k \in 1..(Len(events) - 1) :
    /\ events[k].kind = "task"
    /\ events[k + 1].kind = "task"
    /\ events[k].done > events[k + 1].done

\* C1: while the signal is not aborted a run of q or chunk does not fail, and
\* the sequence it returns has one result per task, the result at index i
\* being the outcome of task i, whatever the order of settlement.
C1_ResultsInInputOrder ==
  signal # "aborted" =>
    /\ pc # "aborted"
    /\ pc = "done" =>
         /\ Len(results) = total
         /\ \A i \in Tasks : OwnResult(results[i], i)

\* C1 witness: a chunk run of three tasks in batches of at least two has
\* returned after members settled against their input order.
C1_Witness ==
  /\ pc = "done"
  /\ signal # "aborted"
  /\ mode = "chunk"
  /\ total = 3
  /\ n >= 2
  /\ OutOfOrder
  /\ Len(results) = 3

\* C2: while the signal is not aborted the run does not fail; a task whose
\* promise rejects with E (an AbortError of its own included) while execTask
\* awaits it gets {rejected, E} at its own index, and a run that returned
\* has dispatched every task and holds a result for each.
C2_TaskErrorsAreSettled ==
  signal # "aborted" =>
    /\ pc # "aborted"
    /\ \A i \in Tasks :
         (body[i] = "settled" /\ ~bodyRes[i].ok /\ ~TimedOut(i)) =>
           /\ batchResults[i] = Rejected(bodyRes[i].error)
           /\ bodyRes[i].error \in TaskError(i)
           /\ i <= Len(results) => results[i] = Rejected(bodyRes[i].error)
           /\ mode = "q" => Len(results) >= i
    /\ pc = "done" =>
         /\ Len(results) = total
         /\ \A i \in Tasks : \E k \in 1..Len(dispatched) : dispatched[k].task = i

\* C2 witness: a run of three tasks returned although its first task
\* rejected with an AbortError of its own and its second with an Error.
C2_Witness ==
  /\ pc = "done"
  /\ signal # "aborted"
  /\ total = 3
  /\ results[1] = Rejected([name |-> "AbortError", task |-> 1])
  /\ results[2] = Rejected([name |-> "Error", task |-> 2])
  /\ results[3] = Fulfilled(3)

\* C3 as stated: when the signal is already aborted at the call, the run
\* fails with AbortError and dispatches nothing, for every task list.
C3_AbortedAtCallFails ==
  atCall = "aborted" => (pc = "aborted" /\ dispatched = <<>>)

\* C3 amended: when the signal is already aborted at the call and the task
\* list is not empty, the run fails with AbortError and never dispatches a
\* task; nothing of it sleeps, runs or reports progress.
C3_AbortedAtCallFailsNonEmpty ==
  (atCall = "aborted" /\ total > 0) =>
    /\ pc = "aborted"
    /\ dispatched = <<>>
    /\ events = <<>>
    /\ \A i \in Tasks : st[i] = "idle" /\ body[i] = "idle"

\* C3 witness: a run with a rate limit and a timeout over three tasks was
\* called with an aborted signal and has failed.
C3_Witness ==
  /\ atCall = "aborted"
  /\ total = 3
  /\ rateLimit > 0
  /\ timeout > 0
  /\ pc = "aborted"


\* the run has not stopped at task i: it ended, or i was not the last task
\* awaited and the code after the await ran
GoesOn(i) ==
  IF mode = "q"
    THEN /\ Len(results') = i
         /\ results'[i] = batchResults'[i]
         /\ \/ pc' = "done" /\ i = total
            \/ pc' = "aborted" /\ i < total /\ signal = "aborted"
            \/ pc' = "run" /\ i < total /\ st'[i + 1] \in {"sleep", "exec"}
    ELSE pc' = pc /\ results' = results

\* C4: with a timeout, a task still unsettled when its timer fires gets
\* {rejected, TimeoutError} and the run goes on; the task is not cancelled
\* (its body is still running and may settle later), and no later settlement
\* or timer changes a result once recorded: a task that settled before its
\* timer keeps its own outcome when the timer fires afterwards.
C4_TimeoutKeepsRunning ==
  /\ [](\A i \in Tasks :
          /\ timer[i] # NoTimer => timeout > 0
          /\ (timer[i] = Fired /\ body[i] = "running") => TimedOut(i)
          /\ (TimedOut(i) /\ i <= Len(results)) => results[i] = Rejected(TimeoutError))
  /\ [][\A i \in Tasks :
          /\ (st[i] = "exec" /\ timer[i] >= 0 /\ timer'[i] = Fired) =>
               /\ batchResults'[i] = Rejected(TimeoutError)
               /\ st'[i] = "returned"
               /\ body'[i] = "running"
               /\ GoesOn(i)
          /\ (st[i] = "exec" /\ body'[i] = "settled") =>
               /\ batchResults'[i] = Settled(bodyRes'[i])
               /\ st'[i] = "returned"
               /\ timer'[i] = timer[i]
               /\ GoesOn(i)
          /\ batchResults[i] # NoResult => batchResults'[i] = batchResults[i]
          /\ i <= Len(results) => (Len(results') >= i /\ results'[i] = results[i])
      ]_vars

\* C4 witness: a run returned in which one task timed out and its body
\* settled afterwards, and another settled first and saw its timer fire later.
C4_Witness ==
  /\ pc = "done"
  /\ \E i, j \in Tasks :
       /\ TimedOut(i)
       /\ results[i] = Rejected(TimeoutError)
       /\ body[i] = "settled"
       /\ bodyRes[i].ok
       /\ results[j] = Fulfilled(j)
       /\ timer[j] = Fired


\* No more than rateLimit dispatches in any trailing window: the dispatch
\* that comes rateLimit places after another is at least Window ms later.
RateRespected ==
  \A k \in 1..Len(dispatched) :
    k + rateLimit <= Len(dispatched) =>
      dispatched[k + rateLimit].at - dispatched[k].at >= Window

\* C5: in a q run with rateLimit = N > 0 the (k+N)-th dispatch is at least
\* 1000 ms after the k-th, whatever the tasks' durations.
C5_QRateRespected ==
  (mode = "q" /\ rateLimit > 0) => RateRespected

\* C5 witness: q with rateLimit 2 dispatched its third task after a sleep
\* that ended exactly when the window of the first dispatch had passed.
C5_Witness ==
  /\ mode = "q"
  /\ rateLimit = 2
  /\ Len(dispatched) = 3
  /\ dispatched[2].at > dispatched[1].at
  /\ dispatched[3].at = dispatched[1].at + Window + Margin

\* C6 as stated: in a chunk run with rateLimit = N > 0 and any batch size,
\* no more than N tasks are dispatched in any trailing 1000 ms window.
C6_ChunkRateRespected ==
  (mode = "chunk" /\ rateLimit > 0) => RateRespected


\* q calls the tasks in input order
InInputOrder == \A k \in 1..Len(dispatched) : dispatched[k].task = k

\* the tasks whose work is running
Running == {i \in Tasks : body[i] = "running"}

\* C7 as stated: in a q run, for every combination of options, tasks start
\* in input order and the work of at most one task is running at any time.
C7_OneBodyRunning ==
  mode = "q" => (InInputOrder /\ Cardinality(Running) <= 1)

\* C7 amended: in a q run tasks start in input order, at most one task is
\* awaited at any time, and task i+1 is not started before task i has its
\* settled result (its own outcome or TimeoutError); without a timeout the
\* work of at most one task is running at any time.
C7_OneTaskAwaited ==
  mode = "q" =>
    /\ InInputOrder
    /\ Cardinality({i \in Tasks : st[i] \in {"sleep", "exec"}}) <= 1
    /\ \A i \in Tasks :
         (i > 1 /\ st[i] # "idle") =>
           /\ st[i - 1] = "returned"
           /\ Len(results) >= i - 1
           /\ results[i - 1] = batchResults[i - 1]
    /\ timeout = 0 => Cardinality(Running) <= 1
    /\ \A i \in Running : st[i] = "exec" \/ TimedOut(i)

\* C7 witness: q has started its third task while the second, timed out,
\* is still running, and the first has settled by itself.
C7_Witness ==
  /\ mode = "q"
  /\ total = 3
  /\ rateLimit > 0
  /\ st[3] = "exec"
  /\ Running = {2, 3}
  /\ results = <<Fulfilled(1), Rejected(TimeoutError)>>


\* the group of task i: the consecutive slices of n tasks, counted from 0
Group(i) == (i - 1) \div n

\* C8: in a chunk run the groups are the consecutive slices of at most n
\* tasks; no task of a group is dispatched (or even starts its rate-limit
\* sleep) before every task of the groups before it has its settled result,
\* so at most n tasks are dispatched and not yet settled at any time.
C8_GroupsInTurn ==
  mode = "chunk" =>
    /\ index % n = 0
    /\ \A i \in Tasks :
         st[i] # "idle" =>
           /\ Group(i) <= index \div n
           /\ \A j \in Tasks :
                Group(j) < Group(i) =>
                  /\ st[j] = "returned"
                  /\ batchResults[j] # NoResult
                  /\ j <= Len(results)
    /\ Cardinality({i \in Tasks : st[i] = "exec"}) <= n
    /\ \A k \in 1..Len(dispatched) : \A m \in 1..Len(dispatched) :
         k < m => Group(dispatched[k].task) <= Group(dispatched[m].task)

\* C8 witness: chunk over three tasks with n = 2 has dispatched the last,
\* smaller group after the two tasks of the first group settled, the second
\* task before the first.
C8_Witness ==
  /\ mode = "chunk"
  /\ total = 3
  /\ n = 2
  /\ st[3] = "exec"
  /\ Len(results) = 2
  /\ OutOfOrder


\* C9 as stated: over the successive onProgress events of one run, done
\* never decreases, 0 <= done <= total, and total is the number of tasks.
C9_DoneNeverDecreases ==
  \A k \in 1..Len(events) :
    /\ events[k].total = total
    /\ 0 <= events[k].done
    /\ events[k].done <= total
    /\ k > 1 => events[k - 1].done <= events[k].done

\* C10 as stated: in every snapshot passed to onProgress the length of
\* results equals done.
C10_ResultsLengthIsDone ==
  \A k \in 1..Len(events) : Len(events[k].results) = events[k].done

\* the number of groups of a chunk run: ceil(total / n)
Groups == (total + n - 1) \div n

\* the batch-boundary events among the first p events
Boundaries(p) == Cardinality({k \in 1..p : events[k].kind = "batch"})

\* C11: a chunk run without cancellation invokes onProgress once as each
\* task settles and once after each group: the boundary event of the k-th
\* group comes right after the intra-batch events of all its members and
\* carries done = min(k*n, total); a run that returned has emitted exactly
\* total + ceil(total/n) events, total of them intra-batch.
C11_EventCount ==
  (mode = "chunk" /\ onProgress /\ signal # "aborted") =>
    /\ \A p \in 1..Len(events) :
         /\ events[p].kind = "batch" <=> (p % (n + 1) = 0 \/ p = total + Groups)
         /\ events[p].kind = "batch" =>
              events[p].done = Min(Boundaries(p) * n, total)
    /\ Boundaries(Len(events)) = Min(index \div n, Groups)
    /\ Len(events) - Boundaries(Len(events))
         = Cardinality({i \in Tasks : st[i] = "returned"})
    /\ pc = "done" =>
         /\ Len(events) = total + Groups
         /\ Boundaries(Len(events)) = Groups

\* C11 witness: chunk over three tasks with n = 2 returned after five
\* events, the boundary events third and fifth, with members of the first
\* group settling against their input order.
C11_Witness ==
  /\ mode = "chunk"
  /\ onProgress
  /\ signal # "aborted"
  /\ pc = "done"
  /\ total = 3
  /\ n = 2
  /\ Len(events) = 5
  /\ events[3].kind = "batch"
  /\ events[3].done = 2
  /\ events[5].kind = "batch"
  /\ events[5].done = 3
  /\ OutOfOrder

\* C14 as stated: in chunk, once a task of a group has been dispatched the
\* run does not fail with AbortError before every task of that group has
\* been dispatched and has settled.
C14_GroupNotInterrupted ==
  (mode = "chunk" /\ pc = "aborted") =>
    \A i \in Tasks :
      (\E j \in Tasks : Group(j) = Group(i) /\ body[j] # "idle") =>
        st[i] = "returned"

\* C15: in q, when the signal is aborted while task i, not the last, is in
\* flight, the run does not fail before task i has settled; the step that
\* settles it appends its result, emits its event and only then fails the
\* run with AbortError; a failed q has a result and an event for every
\* task it dispatched and never dispatches again.
C15_InFlightFinishesFirst ==
  /\ [](mode = "q" =>
         /\ \A i \in Tasks : st[i] = "exec" => pc = "run"
         /\ pc = "aborted" =>
              /\ Len(results) = Len(dispatched)
              /\ \A i \in 1..Len(results) : results[i] = batchResults[i]
              /\ onProgress => Len(events) = Len(results)
              /\ \A i \in Tasks : i > Len(results) => body[i] = "idle")
  /\ [][mode = "q" =>
          /\ \A i \in Tasks :
               (st[i] = "exec" /\ signal = "aborted" /\ i < total
                  /\ st'[i] # "exec") =>
                 /\ st'[i] = "returned"
                 /\ results' = Append(results, batchResults'[i])
                 /\ onProgress =>
                      events' = Append(events, [done |-> i, total |-> total,
                                                results |-> results',
                                                kind |-> "task", pc |-> "run"])
                 /\ pc' = "aborted"
                 /\ dispatched' = dispatched
          /\ pc = "aborted" => (pc' = "aborted" /\ dispatched' = dispatched)
      ]_vars

\* C15 witness: q over three tasks failed after its first task, in flight
\* when the signal was aborted, had its result kept and its event emitted.
C15_Witness ==
  /\ mode = "q"
  /\ total = 3
  /\ onProgress
  /\ atCall = "clear"
  /\ pc = "aborted"
  /\ Len(results) = 1
  /\ Len(events) = 1
  /\ Len(dispatched) = 1
  /\ body[2] = "idle"

\* C16: no task is dispatched at a moment when the signal is aborted: a
\* step taken under an aborted signal calls no task, and a member or
\* iteration that wakes from its rate-limit sleep under an aborted signal
\* throws instead of calling its task.
C16_NoDispatchWhenAborted ==
  /\ [](\A k \in 1..Len(dispatched) : ~dispatched[k].aborted)
  /\ [][/\ signal = "aborted" => dispatched' = dispatched
         /\ \A i \in Tasks :
              (st[i] = "sleep" /\ signal = "aborted" /\ st'[i] # "sleep") =>
                (st'[i] = "threw" /\ body'[i] = "idle" /\ pc' = "aborted")
      ]_vars

\* C16 witness: a member of a chunk batch slept for the rate limit, found
\* the signal aborted when it woke and threw, its task never called, while
\* another member of the batch was dispatched before the abort.
C16_Witness ==
  /\ mode = "chunk"
  /\ signal = "aborted"
  /\ \E i, j \in Tasks :
       /\ st[i] = "threw"
       /\ wake[i] > Epoch
       /\ body[i] = "idle"
       /\ Group(j) = Group(i)
       /\ body[j] # "idle"

\* C18 as stated: once a run has returned or failed, onProgress is never
\* invoked again for it.
C18_NoEventAfterEnd ==
  \A k \in 1..Len(events) : events[k].pc = "run"

\* C19 as stated: in every snapshot passed to onProgress, entry j of
\* results is the result of task j.
C19_SnapshotIsPrefix ==
  \A k \in 1..Len(events) :
    \A j \in 1..Len(events[k].results) :
      events[k].results[j] = batchResults[j]

\* C17: every run ends, and ends in exactly one of the two terminal states:
\* it returns its results or fails with AbortError (which takes an aborted
\* signal), and stays there; a run whose signal is never aborted returns.
\* Task promises are assumed to settle only when no timeout is configured:
\* with a timeout the run ends even if no task body ever settles.
C17_RunEnds ==
  /\ <>(pc \in {"done", "aborted"})
  /\ <>(pc = "done" \/ signal = "aborted")
  /\ [](pc = "aborted" => signal = "aborted")
  /\ [][(pc \in {"done", "aborted"}) => (pc' = pc)]_vars

\* C17 witness: a chunk run with a timeout returned although none of its
\* two task bodies has settled.
C17_Witness ==
  /\ mode = "chunk"
  /\ total = 2
  /\ timeout > 0
  /\ pc = "done"
  /\ \A i \in Tasks : body[i] = "running"
  /\ results = <<Rejected(TimeoutError), Rejected(TimeoutError)>>

\* the dispatches of a run in the window of Window ms that ends at time t
DispatchesIn(d, t) ==
  Cardinality({k \in 1..Len(d) : d[k].at > t - Window /\ d[k].at <= t})

\* the dispatches of both runs in the window that ends at time t
Together(t) == DispatchesIn(dispatched, t) + DispatchesIn(other.dispatched, t)

\* the times at which a task of either run was dispatched
DispatchTimes ==
  {dispatched[k].at : k \in 1..Len(dispatched)}
    \cup {other.dispatched[k].at : k \in 1..Len(other.dispatched)}

\* C12 as stated: the calls made through one pool with rateLimit = N
\* together dispatch at most N tasks in any trailing 1000 ms window.
C12_PoolRateRespected == \A t \in DispatchTimes : Together(t) <= rateLimit

\* the timestamps a run holds are the times of its own dispatches
OwnTimes(s) ==
  s.timestamps = Shift([k \in 1..Len(s.dispatched) |-> s.dispatched[k].at], Keep)

\* C13: each of two concurrent standalone runs has a rate limiter of its own:
\* the timestamps a run computes its delays from are the times of its own
\* dispatches, a step of one run leaves the timestamps, the wake-up times
\* and the dispatch times of the other as they are, and two q runs with
\* rateLimit = N together dispatch up to 2N tasks per 1000 ms window.
C13_PrivateRateLimiter ==
  /\ [](OwnTimes(State) /\ OwnTimes(other))
  /\ [](mode = "q" => \A t \in DispatchTimes : Together(t) <= 2 * rateLimit)
  /\ [][/\ other' # other =>
            UNCHANGED <<timestamps, wake, dispatched>>
        /\ <<timestamps, wake, dispatched>>' # <<timestamps, wake, dispatched>> =>
            /\ other'.timestamps = other.timestamps
            /\ other'.wake = other.wake
            /\ other'.dispatched = other.dispatched]_vars

\* C13 witness: two standalone q runs with rateLimit 2 have dispatched four
\* tasks within one window, the second run twice after the first run's two.
C13_Witness ==
  /\ mode = "q"
  /\ rateLimit = 2
  /\ Len(dispatched) = 2
  /\ Len(other.dispatched) = 2
  /\ Together(now) = 4
  /\ timestamps = <<dispatched[1].at, dispatched[2].at>>
  /\ other.timestamps = <<other.dispatched[1].at, other.dispatched[2].at>>

\* the tasks of a dispatch log, in the order of their calls
TasksOf(d) == [k \in 1..Len(d) |-> d[k].task]

\* the tasks of group g (counted from 1) of the input list, in input order
GroupTasks(g) == [k \in 1..(Min(g * n, total) - (g - 1) * n) |-> (g - 1) * n + k]

\* A step that calls tasks calls the whole next group, in input order, when
\* every task of the groups before it has been called and has settled.
NextGroupOnly(before, after, settled) ==
  before # after =>
    \E g \in 1..Groups :
      /\ before = [k \in 1..((g - 1) * n) |-> k]
      /\ after = before \o GroupTasks(g)
      /\ \A i \in 1..((g - 1) * n) : settled[i] = "settled"

\* C20: on a list of tasks that all succeed, for every n >= 1, the recursive
\* chunk of q-chunk.js and the iterative chunk called without options
\* dispatch the same tasks in the same consecutive groups in the same order,
\* start a group only after the group before it has fully settled, and
\* return the tasks' values in the same order, the input order.
C20_SameScheduler ==
  /\ [][/\ NextGroupOnly(TasksOf(dispatched), TasksOf(dispatched'), body)
        /\ NextGroupOnly(TasksOf(rec.dispatched), TasksOf(rec.dispatched'),
                         rec.body)]_vars
  /\ [](\A k \in 1..Len(rec.dispatched) :
          rec.dispatched[k].group = Group(rec.dispatched[k].task) + 1)
  /\ []((pc = "done" /\ rec.pc = "done") =>
          /\ Len(dispatched) = total
          /\ Len(rec.dispatched) = total
          /\ Len(results) = total
          /\ rec.out = [k \in 1..total |-> results[k].value]
          /\ rec.out = [k \in 1..total |-> k])

\* C20 witness: both chunks returned the values of three tasks run in two
\* groups of sizes 2 and 1.
C20_Witness ==
  /\ total = 3
  /\ n = 2
  /\ pc = "done"
  /\ rec.pc = "done"
  /\ rec.out = <<1, 2, 3>>
  /\ TasksOf(dispatched) = TasksOf(rec.dispatched)
  /\ rec.dispatched[3].group = 2

====
